---- MODULE Spec2Model ----
(***************************************************************************)
(* A model of the jieba-go tokenizer: the prefix dictionary, the DAG       *)
(* builder and path finder, the HMM/Viterbi segmenter, the text splitter,  *)
(* the non-Chinese segmenter and the sequential and parallel pipelines.    *)
(*                                                                         *)
(* Representation.  A Go string is modelled as the sequence of its runes,  *)
(* each rune a TLA+ string; offsets are rune offsets shifted by nothing:   *)
(* a Go offset i (0-based) is the model's offset i, and text[i:j] is       *)
(* SubSeq(text, i+1, j).  A float64 is an integer (a log-probability       *)
(* scaled by 100) or one of the IEEE specials NegInf, PosInf, NaN.         *)
(***************************************************************************)
EXTENDS Integers, Sequences, FiniteSets, TLC

VARIABLES
    termFreq,     \* tk.pd.termFreq : map[string]int
    size,         \* tk.pd.size
    hmm,          \* tk.hmm : startP, transP, emitP
    tkDag,        \* tk.dag (debug field, written by buildDAG)
    tkDagProba,   \* tk.dagProba (debug field, written by findDAGPath)
    call,         \* the last call made by the sequential caller, with its result
    again,        \* the result of repeating that call on the same input
    calls,        \* how many calls the sequential caller has made
    lockW,        \* tk.pd.lock: the goroutine holding it exclusively, or 0
    lockR,        \* tk.pd.lock: the goroutines holding it shared
    frames,       \* per goroutine: the stack of calls in progress
    ret,          \* per goroutine: what the call that returned last returned
    par           \* the state of one CutParallel call: channels and goroutines

vars == <<termFreq, size, hmm, tkDag, tkDagProba, call, again, calls, lockW, lockR,
          frames, ret, par>>

-----------------------------------------------------------------------------
(* Runes.                                                                  *)

\* Runes matched by \p{Han}.
Han == {"han1", "han2"}
\* Runes matched by [a-zA-Z0-9].
Alnum == {"a", "1"}
\* Runes for which unicode.IsSpace is true.
Space == {" "}
\* Any other rune (punctuation, kana, hangul, ...).
Other == {"+"}
Rune == Han \cup Alnum \cup Space \cup Other

\* All sequences over S of length 0..n.
SeqsUpTo(S, n) == UNION {[1..k -> S] : k \in 0..n}

\* Go's s[i:j] on rune offsets.
Slice(s, i, j) == SubSeq(s, i + 1, j)

RECURSIVE Flatten(_)
\* append(result, tokens...) over a list of token lists.
Flatten(ss) == IF ss = <<>> THEN <<>> ELSE Head(ss) \o Flatten(Tail(ss))

-----------------------------------------------------------------------------
(* float64.                                                                *)

\* const minFloat float64 = -3.14e100
minFloat == -1000000
\* math.Inf(-1), math.Inf(1), math.NaN()
NegInf == -1000000000
PosInf == 1000000000
NaN == 2000000000

IsSpecial(x) == x \in {NegInf, PosInf, NaN}
\* Magnitudes of the order of minFloat absorb every ordinary summand:
\* -3.14e100 + x == -3.14e100 for |x| < 1e84.
IsHuge(x) == x <= minFloat \/ x >= -minFloat
HugePart(x) == IF IsHuge(x) THEN x ELSE 0

\* a + b on float64.
FAdd(a, b) ==
    IF a = NaN \/ b = NaN THEN NaN
    ELSE IF a = PosInf THEN (IF b = NegInf THEN NaN ELSE PosInf)
    ELSE IF a = NegInf THEN (IF b = PosInf THEN NaN ELSE NegInf)
    ELSE IF b = PosInf \/ b = NegInf THEN b
    ELSE IF IsHuge(a) \/ IsHuge(b) THEN HugePart(a) + HugePart(b)
    ELSE a + b

\* -a on float64.
FNeg(a) ==
    IF a = NaN THEN NaN
    ELSE IF a = PosInf THEN NegInf
    ELSE IF a = NegInf THEN PosInf
    ELSE -a

\* a - b on float64.
FSub(a, b) == FAdd(a, FNeg(b))

\* a >= b and a > b on float64: every comparison with NaN is false.
FGe(a, b) == a # NaN /\ b # NaN /\ a >= b
FGt(a, b) == a # NaN /\ b # NaN /\ a > b

\* round(100 * ln n) for n = 1..40.
LogTable ==
    <<0, 69, 110, 139, 161, 179, 195, 208, 220, 230,
      240, 248, 256, 264, 271, 277, 283, 289, 294, 300,
      304, 309, 314, 318, 322, 326, 330, 333, 337, 340,
      343, 347, 350, 353, 356, 358, 361, 364, 366, 369>>

\* math.Log(float64(n)): -Inf at 0, NaN below 0.
Log(n) ==
    IF n = 0 THEN NegInf
    ELSE IF n < 0 THEN NaN
    ELSE IF n <= Len(LogTable) THEN LogTable[n]
    ELSE LogTable[Len(LogTable)] + (n - Len(LogTable))

-----------------------------------------------------------------------------
(* The prefix dictionary.                                                  *)

\* make(map[string]int)
EmptyMap == [k \in {} |-> 0]

Found(m, k) == k \in DOMAIN m

\* m[k] += v
PutAdding(m, k, v) ==
    [x \in (DOMAIN m) \cup {k} |->
        IF x = k THEN (IF k \in DOMAIN m THEN m[k] + v ELSE v) ELSE m[x]]

\* m[k] = v
Put(m, k, v) == [x \in (DOMAIN m) \cup {k} |-> IF x = k THEN v ELSE m[x]]

\* v, found := m[k]: the zero value when k is absent.
Get(m, k) == IF Found(m, k) THEN m[k] ELSE 0

RECURSIVE IndexOf(_, _, _)
\* strings.Index(s, sep) for a one-rune separator, from 1-based position i; 0 if absent.
IndexOf(s, sep, i) ==
    IF i > Len(s) THEN 0
    ELSE IF s[i] = sep THEN i
    ELSE IndexOf(s, sep, i + 1)

RECURSIVE SplitN(_, _, _)
\* strings.SplitN(s, sep, n) for a one-rune separator and n >= 1.
SplitN(s, sep, n) ==
    LET p == IndexOf(s, sep, 1) IN
    IF n = 1 \/ p = 0 THEN <<s>>
    ELSE <<SubSeq(s, 1, p - 1)>> \o SplitN(SubSeq(s, p + 1, Len(s)), sep, n - 1)

DigitVal == [d \in {"0", "1", "2", "3", "4", "5", "6", "7", "8", "9"} |->
    CASE d = "0" -> 0 [] d = "1" -> 1 [] d = "2" -> 2 [] d = "3" -> 3 [] d = "4" -> 4
      [] d = "5" -> 5 [] d = "6" -> 6 [] d = "7" -> 7 [] d = "8" -> 8 [] d = "9" -> 9]

RECURSIVE DigitsVal(_, _)
DigitsVal(s, acc) ==
    IF s = <<>> THEN acc ELSE DigitsVal(Tail(s), 10 * acc + DigitVal[Head(s)])

\* strconv.Atoi(s): an optional sign and at least one decimal digit, else an error.
Atoi(s) ==
    LET signed == s # <<>> /\ Head(s) \in {"+", "-"}
        digits == IF signed THEN Tail(s) ELSE s
        ok     == digits # <<>> /\ \A i \in 1..Len(digits) : digits[i] \in DOMAIN DigitVal
    IN  IF ~ok THEN [ok |-> FALSE, val |-> 0]
        ELSE [ok |-> TRUE,
              val |-> IF signed /\ Head(s) = "-" THEN -DigitsVal(digits, 0)
                      ELSE DigitsVal(digits, 0)]

RECURSIVE addPiecesOverwriting(_, _, _)
\* The prefix loop without its `found` test: a prefix is set to 0 even when
\* it is already a key.
addPiecesOverwriting(m, word, k) ==
    IF k >= Len(word) THEN m
    ELSE addPiecesOverwriting(Put(m, SubSeq(word, 1, k), 0), word, k + 1)

RECURSIVE addPieces(_, _, _)
\* The "Add word pieces" loop of buildPrefixDictionary: every strict prefix
\* of word of length k..len-1 is inserted with count 0 if absent.
addPieces(m, word, k) ==
    IF k >= Len(word) THEN m
    ELSE LET piece == SubSeq(word, 1, k) IN
         addPieces(IF Found(m, piece) THEN m ELSE Put(m, piece, 0), word, k + 1)

RECURSIVE buildLines(_, _, _, _)
\* The loop over dictionaryLines of Tokenizer.buildPrefixDictionary, from
\* line i on, with the map and the running total built so far.  status is
\* "ok" (returns nil), "error" (returns the Atoi error) or "panic" (an index
\* or slice bound out of range).
buildLines(lines, i, m, total) ==
    IF i > Len(lines) THEN [status |-> "ok", termFreq |-> m, total |-> total]
    ELSE
      LET parts == SplitN(lines[i], " ", 3)
          word  == parts[1]
      IN  IF Len(parts) < 2
          THEN [status |-> "panic", termFreq |-> m, total |-> total]
          ELSE LET r == Atoi(parts[2]) IN
               IF ~r.ok
               THEN [status |-> "error", termFreq |-> m, total |-> total]
               ELSE LET m1 == Put(m, word, r.val) IN
                    IF Len(word) = 0
                    THEN [status |-> "panic", termFreq |-> m1, total |-> total + r.val]
                    ELSE buildLines(lines, i + 1, addPieces(m1, word, 1), total + r.val)

\* Tokenizer.buildPrefixDictionary(dictionaryLines) on a dictionary whose
\* corpus size is oldSize: the term table is replaced before the first line
\* is read, the size is assigned only on success.
buildPrefixDictionary(lines, oldSize) ==
    LET r == buildLines(lines, 1, EmptyMap, 0) IN
    [status   |-> r.status,
     termFreq |-> r.termFreq,
     size     |-> IF r.status = "ok" THEN r.total ELSE oldSize]

\* prefixDictionary.addTerm, the two assignments under the lock.
addTermWrite(m, sz, term, freq) ==
    [termFreq |-> Put(m, term, freq), size |-> sz + freq]

-----------------------------------------------------------------------------
(* Splitting a text into blocks.                                           *)

RECURSIVE runEnd(_, _, _)
\* The end offset of the maximal run of runes of cls that starts at offset i.
runEnd(text, cls, i) ==
    IF i < Len(text) /\ text[i + 1] \in cls THEN runEnd(text, cls, i + 1) ELSE i

RECURSIVE findAllIndexFrom(_, _, _)
findAllIndexFrom(text, cls, i) ==
    IF i >= Len(text) THEN <<>>
    ELSE IF text[i + 1] \notin cls THEN findAllIndexFrom(text, cls, i + 1)
    ELSE LET e == runEnd(text, cls, i) IN
         <<(<<i, e>>)>> \o findAllIndexFrom(text, cls, e)

\* regexp.FindAllIndex for a pattern cls+ : the (start, end) offsets of the
\* maximal runs of runes of cls, left to right.
FindAllIndex(text, cls) == findAllIndexFrom(text, cls, 0)

\* A block numbered from 1.
textBlockFromOne(id, text, doProcess) == [id |-> id + 1, text |-> text, doProcess |-> doProcess]

textBlock(id, text, doProcess) == [id |-> id, text |-> text, doProcess |-> doProcess]

RECURSIVE splitLoop(_, _, _, _, _, _)
\* The loop of splitText over markedIndexes[k..], with the loop's locals.
splitLoop(text, markedIndexes, k, count, prevTail, blocks) ==
    IF k > Len(markedIndexes) THEN blocks
    ELSE
      LET pair   == markedIndexes[k]
          gap    == pair[1] # prevTail
          b1     == IF gap
                    THEN Append(blocks, textBlock(count, Slice(text, prevTail, pair[1]), FALSE))
                    ELSE blocks
          c1     == IF gap THEN count + 1 ELSE count
          b2     == Append(b1, textBlock(c1, Slice(text, pair[1], pair[2]), TRUE))
          c2     == c1 + 1
          b3     == IF k = Len(markedIndexes) /\ pair[2] # Len(text)
                    THEN Append(b2, textBlock(c2, Slice(text, pair[2], Len(text)), FALSE))
                    ELSE b2
      IN  splitLoop(text, markedIndexes, k + 1, c2, pair[2], b3)

\* splitText(text, markedIndexes)
splitText(text, markedIndexes) ==
    IF Len(markedIndexes) = 0 THEN <<textBlock(0, text, FALSE)>>
    ELSE splitLoop(text, markedIndexes, 1, 0, 0, <<>>)

RECURSIVE nonSpaceRunes(_)
\* The inner loop of cutNonZh over a block that is not alphanumeric.
nonSpaceRunes(t) ==
    IF t = <<>> THEN <<>>
    ELSE (IF Head(t) \in Space THEN <<>> ELSE <<(<<Head(t)>>)>>) \o nonSpaceRunes(Tail(t))

RECURSIVE cutNonZhBlocks(_)
cutNonZhBlocks(blocks) ==
    IF blocks = <<>> THEN <<>>
    ELSE (IF Head(blocks).doProcess THEN <<Head(blocks).text>>
          ELSE nonSpaceRunes(Head(blocks).text)) \o cutNonZhBlocks(Tail(blocks))

\* cutNonZh without its early return: every rune that is no space is a token.
cutNonZhEveryRune(text) == nonSpaceRunes(text)

\* Tokenizer.cutNonZh(text)
cutNonZh(text) ==
    LET alnumIdx == FindAllIndex(text, Alnum) IN
    IF Len(alnumIdx) = 0 THEN <<>>
    ELSE cutNonZhBlocks(splitText(text, alnumIdx))

-----------------------------------------------------------------------------
(* The DAG and its best path.                                              *)

RECURSIVE extendPiecesFromNext(_, _, _)
\* The inner loop of buildDAG starting one rune late: the one-rune slice at
\* offset i is skipped.
extendPiecesFromNext(text, i, e) ==
    IF e > Len(text) THEN <<>>
    ELSE IF e = i + 1 THEN extendPiecesFromNext(text, i, e + 1)
    ELSE LET part == Slice(text, i, e) IN
         IF ~Found(termFreq, part) THEN <<>>
         ELSE (IF termFreq[part] > 0 THEN <<e>> ELSE <<>>) \o extendPiecesFromNext(text, i, e + 1)

RECURSIVE extendPieces(_, _, _)
\* The inner loop of buildDAG at offset i, from candidate end offset e on:
\* stop at the first slice that is no key, keep the ends whose count is > 0.
extendPieces(text, i, e) ==
    IF e > Len(text) THEN <<>>
    ELSE LET part == Slice(text, i, e) IN
         IF ~Found(termFreq, part) THEN <<>>
         ELSE (IF termFreq[part] > 0 THEN <<e>> ELSE <<>>) \o extendPieces(text, i, e + 1)

\* The end offsets buildDAG collects for offset i.
dagEnds(text, i) ==
    LET r == <<text[i + 1]>> IN
    IF ~Found(termFreq, r) \/ termFreq[r] = 0 THEN <<i + 1>>
    ELSE extendPieces(text, i, i + 1)

\* Tokenizer.buildDAG(text): offset -> end offsets, a key for every offset
\* that got a piece.
buildDAG(text) ==
    [i \in {k \in 0..(Len(text) - 1) : dagEnds(text, k) # <<>>} |-> dagEnds(text, i)]

\* m[i] on a map of slices: nil when the key is absent.
ListAt(m, i) == IF i \in DOMAIN m THEN m[i] ELSE <<>>

tailProba(index, proba) == [index |-> index, proba |-> proba]

RECURSIVE maxLoop(_, _, _, _)
maxLoop(items, k, prev, best) ==
    IF k > Len(items) THEN (IF best.index = -1 THEN prev ELSE best)
    ELSE maxLoop(items, k + 1, items[k],
                 IF FGe(items[k].proba, prev.proba) THEN items[k] ELSE best)

\* maxIndexProba without its last resort: when no item reached the floor
\* the initial pair {-1, minFloat} is returned.
maxIndexProbaNoLastResort(items) ==
    LET r == maxLoop(items, 1, tailProba(-1, minFloat), tailProba(-1, minFloat)) IN
    IF FGe(r.proba, minFloat) THEN r ELSE tailProba(-1, minFloat)

\* Tokenizer.maxIndexProba(items)
maxIndexProba(items) ==
    maxLoop(items, 1, tailProba(-1, minFloat), tailProba(-1, minFloat))

\* The score findDAGPath gives the piece text[i:j]: log(freq or 1) - log(size).
pieceFreq(text, i, j) ==
    LET p  == Slice(text, i, j)
        tf == IF Found(termFreq, p) THEN termFreq[p] ELSE 1
    IN  FSub(Log(tf), Log(size))

RECURSIVE dagProbaFrom(_, _, _)
\* The map dagProba of findDAGPath after its loop has handled the offsets
\* n-1 down to i.
dagProbaFrom(text, dag, i) ==
    IF i >= Len(text) THEN EmptyMap
    ELSE
      LET rest  == dagProbaFrom(text, dag, i + 1)
          ends  == ListAt(dag, i)
          entry(j) ==
              LET nextPiece == IF j \in DOMAIN rest THEN rest[j]
                               ELSE <<tailProba(j, 0)>>
              IN  tailProba(j, FAdd(pieceFreq(text, i, j), maxIndexProba(nextPiece).proba))
      IN  Put(rest, i, [k \in 1..Len(ends) |-> entry(ends[k])])

RECURSIVE bestPathLoop(_, _, _, _)
\* The loop of findBestPath from offset i; fuel bounds the iterations.
bestPathLoop(text, dagProba, i, fuel) ==
    IF ~(i < Len(text) /\ i >= 0) \/ fuel = 0 THEN <<>>
    ELSE LET tail == maxIndexProba(ListAt(dagProba, i)) IN
         <<(<<i, tail.index>>)>> \o bestPathLoop(text, dagProba, tail.index, fuel - 1)

\* Tokenizer.findBestPath(text, dagProba)
findBestPath(text, dagProba) == bestPathLoop(text, dagProba, 0, Len(text) + 1)

\* Tokenizer.findDAGPath(text, dag)
findDAGPath(text, dag) == findBestPath(text, dagProbaFrom(text, dag, 0))

\* Tokenizer.cutDAG(text, dagPath)
cutDAG(text, dagPath) == [k \in 1..Len(dagPath) |-> Slice(text, dagPath[k][1], dagPath[k][2])]

\* Whether cutDAG panics: a slice bound out of range.
cutDAGPanics(text, dagPath) ==
    \E k \in 1..Len(dagPath) :
        dagPath[k][2] < dagPath[k][1] \/ dagPath[k][2] > Len(text)

-----------------------------------------------------------------------------
(* The hidden Markov model.                                                *)

HMMstates == <<"B", "M", "E", "S">>
States == {"B", "M", "E", "S"}

\* var stateChange: the legal predecessors of each state.
stateChange == [B |-> <<"E", "S">>, M |-> <<"B", "M">>, E |-> <<"B", "M">>, S |-> <<"E", "S">>]

\* m[a][b] on a map of maps of float64: 0 when a key is absent.
FloatAt2(m, a, b) ==
    IF a \in DOMAIN m /\ b \in DOMAIN m[a] THEN m[a][b] ELSE 0

\* emit, found := hmm.emitP[s][char]; if !found { emit = minFloat }
emitOf(s, char) ==
    IF s \in DOMAIN hmm.emitP /\ char \in DOMAIN hmm.emitP[s]
    THEN hmm.emitP[s][char] ELSE minFloat

transitionRoute(from, proba) == [from |-> from, proba |-> proba]

RECURSIVE routeLoop(_, _, _, _)
\* The second loop of stateTransitionRoute, over the keys of the map routes
\* in the order the runtime happens to iterate them.
routeLoop(routes, order, k, best) ==
    IF k > Len(order) THEN best
    ELSE routeLoop(routes, order, k + 1,
                   IF FGt(routes[order[k]], best.proba)
                   THEN transitionRoute(order[k], routes[order[k]])
                   ELSE best)

\* stateTransitionRoute with every state taken as a predecessor of nowState.
stateTransitionRouteAnyState(step, nowState, hiddenStates, order) ==
    LET routes == [p \in States |->
                      FAdd(hiddenStates[step - 1][p], FloatAt2(hmm.transP, p, nowState))]
    IN  routeLoop(routes, HMMstates, 1, transitionRoute("", minFloat))

\* hiddenMarkovModel.stateTransitionRoute(step, nowState, hiddenStates), with
\* order the iteration order of `range routes` (a Go map: any order).
stateTransitionRoute(step, nowState, hiddenStates, order) ==
    LET preds  == stateChange[nowState]
        routes == [p \in {preds[k] : k \in 1..Len(preds)} |->
                      FAdd(hiddenStates[step - 1][p], FloatAt2(hmm.transP, p, nowState))]
    IN  routeLoop(routes, order, 1, transitionRoute("", minFloat))

\* The iteration orders of the two-key map routes of nowState.
RouteOrder(nowState, rev) ==
    IF rev THEN <<stateChange[nowState][2], stateChange[nowState][1]>>
    ELSE stateChange[nowState]

\* fullPath[from]: nil when from is no key (from = "").
PathAt(fullPath, from) == IF from \in DOMAIN fullPath THEN fullPath[from] ELSE <<>>

\* The locals of viterbi after rune 0: hiddenStateProba and fullPath.
viterbiInit(textRune) ==
    [proba    |-> [i \in {0} |-> [s \in States |-> FAdd(hmm.startP[s], emitOf(s, textRune[1]))]],
     fullPath |-> [s \in States |-> <<s>>]]

\* One iteration of the main loop of viterbi, at rune i (i >= 1); rev[s]
\* tells the order in which the routes into s are iterated.
viterbiStep(cfg, i, char, rev) ==
    LET route(s) == stateTransitionRoute(i, s, cfg.proba, RouteOrder(s, rev[s]))
    IN  [proba    |-> Put(cfg.proba, i,
                          [s \in States |-> FAdd(route(s).proba, emitOf(s, char))]),
         fullPath |-> [s \in States |-> Append(PathAt(cfg.fullPath, route(s).from), s)]]

RECURSIVE viterbiConfigs(_, _)
\* Every value the locals of viterbi can have after rune i, over all the
\* iteration orders of the maps.
viterbiConfigs(textRune, i) ==
    IF i = 0 THEN {viterbiInit(textRune)}
    ELSE UNION {{viterbiStep(c, i, textRune[i + 1], rev) : rev \in [States -> BOOLEAN]}
                : c \in viterbiConfigs(textRune, i - 1)}

\* The path viterbi returns from its final locals.
viterbiPick(cfg, n) ==
    IF FGt(cfg.proba[n - 1]["E"], cfg.proba[n - 1]["S"])
    THEN cfg.fullPath["E"] ELSE cfg.fullPath["S"]

\* hiddenMarkovModel.viterbi(text): the set of paths it can return (one
\* path unless two routes tie).  text has at least one rune.
viterbi(text) ==
    IF Len(text) = 1 THEN {<<"S">>}
    ELSE {viterbiPick(c, Len(text)) : c \in viterbiConfigs(text, Len(text) - 1)}

RECURSIVE cutHMMLoop(_, _, _, _)
cutHMMLoop(textRune, viterbiPath, i, pieceStart) ==
    IF i > Len(viterbiPath) THEN <<>>
    ELSE IF viterbiPath[i] \in {"E", "S"}
         THEN <<Slice(textRune, pieceStart, i)>> \o cutHMMLoop(textRune, viterbiPath, i + 1, i)
         ELSE cutHMMLoop(textRune, viterbiPath, i + 1, pieceStart)

\* Tokenizer.cutHMM(text, viterbiPath)
cutHMM(text, viterbiPath) == cutHMMLoop(text, viterbiPath, 1, 0)

-----------------------------------------------------------------------------
(* Cutting.                                                                *)

\* The words cutZh gets for a run of uncut runes: cutHMM over viterbi.
hmmCut(uncutRunes) == {cutHMM(uncutRunes, v) : v \in viterbi(uncutRunes)}

RECURSIVE hmmWords(_, _, _)
\* The loop of cutZh over dagPieces[k..] with the runes collected so far:
\* the set of word lists it can append.
hmmWords(dagPieces, k, uncutRunes) ==
    IF k > Len(dagPieces) THEN {<<>>}
    ELSE
      LET piece == dagPieces[k] IN
      IF Len(piece) = 1
      THEN LET u == Append(uncutRunes, piece[1]) IN
           IF k >= Len(dagPieces) THEN hmmCut(u)
           ELSE hmmWords(dagPieces, k + 1, u)
      ELSE LET flushed == IF Len(uncutRunes) # 0 THEN hmmCut(uncutRunes) ELSE {<<>>}
               rest    == hmmWords(dagPieces, k + 1, <<>>)
           IN  {f \o <<piece>> \o r : f \in flushed, r \in rest}

\* Tokenizer.cutZh(text, hmm): the set of token lists it can return.
cutZh(text, useHmm) ==
    LET dag       == buildDAG(text)
        dagPath   == findDAGPath(text, dag)
        dagPieces == cutDAG(text, dagPath)
    IN  IF ~useHmm THEN {dagPieces} ELSE hmmWords(dagPieces, 1, <<>>)

\* Tokenizer.cutBlock(block, hmm)
cutBlock(block, useHmm) ==
    IF block.doProcess THEN cutZh(block.text, useHmm) ELSE {cutNonZh(block.text)}

RECURSIVE cutBlocks(_, _)
\* The loop of Cut over the blocks: the set of results it can build.
cutBlocks(blocks, useHmm) ==
    IF blocks = <<>> THEN {<<>>}
    ELSE {a \o b : a \in cutBlock(Head(blocks), useHmm), b \in cutBlocks(Tail(blocks), useHmm)}

\* The blocks Cut and CutParallel split text into.
zhBlocks(text) == splitText(text, FindAllIndex(text, Han))

\* Tokenizer.Cut(text, useHmm) between RLock and RUnlock: the set of token
\* lists it can return.
Cut(text, useHmm) == cutBlocks(zhBlocks(text), useHmm)

-----------------------------------------------------------------------------
(* The tokenizer of tokenizer.go: Cut without the HMM.  Its prefixDict and *)
(* dictSize are the term table and the corpus size.                        *)

\* The end offsets Tokenizer.buildDAG of tokenizer.go collects for offset i:
\* the fallback piece only when the rune is no key at all.
tokenizerDagEnds(text, i) ==
    IF ~Found(termFreq, <<text[i + 1]>>) THEN <<i + 1>>
    ELSE extendPieces(text, i, i + 1)

\* Tokenizer.buildDAG(text) of tokenizer.go
tokenizerBuildDAG(text) ==
    [i \in {k \in 0..(Len(text) - 1) : tokenizerDagEnds(text, k) # <<>>} |->
        tokenizerDagEnds(text, i)]

\* Tokenizer.maxIndexProba(probaIndex) of tokenizer.go, on a map index ->
\* score ranged over in any order with a strict comparison from minFloat on:
\* the pairs (index, score) it can return.
tokenizerMaxIndexProba(probaIndex) ==
    LET above == {j \in DOMAIN probaIndex : FGt(probaIndex[j], minFloat)} IN
    IF above = {} THEN {tailProba(-1, minFloat)}
    ELSE {tailProba(j, probaIndex[j]) :
            j \in {a \in above : \A b \in above : FGe(probaIndex[a], probaIndex[b])}}

RECURSIVE tokenizerDagProbaFrom(_, _, _)
\* The map dagProba of findDAGPath of tokenizer.go after its loop has
\* handled the offsets n-1 down to i: every offset gets a map, empty when
\* the DAG has no edge from it.
tokenizerDagProbaFrom(text, dag, i) ==
    IF i >= Len(text) THEN EmptyMap
    ELSE
      LET rest == tokenizerDagProbaFrom(text, dag, i + 1)
          ends == ListAt(dag, i)
          next(j) == IF j \in DOMAIN rest THEN rest[j] ELSE [x \in {j} |-> 0]
          best(j) == (CHOOSE t \in tokenizerMaxIndexProba(next(j)) : TRUE).proba
      IN  Put(rest, i, [j \in {ends[k] : k \in 1..Len(ends)} |->
                           FAdd(pieceFreq(text, i, j), best(j))])

RECURSIVE tokenizerFindBestPath(_, _, _)
\* The loop of Tokenizer.findBestPath of tokenizer.go from offset i: the
\* outcomes it can have.  When maxIndexProba answers -1 the loop goes on from
\* offset -1, where dagProba has no entry, so it answers -1 again while
\* -1 < len(textRunes) keeps holding: the loop appends {-1, -1} for ever.
tokenizerFindBestPath(text, dagProba, i) ==
    IF i >= Len(text) THEN {[status |-> "returns", path |-> <<>>]}
    ELSE UNION {
           IF t.index = -1 THEN {[status |-> "loops", path |-> <<(<<i, -1>>)>>]}
           ELSE {[status |-> r.status, path |-> <<(<<i, t.index>>)>> \o r.path] :
                   r \in tokenizerFindBestPath(text, dagProba, t.index)}
           : t \in tokenizerMaxIndexProba(IF i \in DOMAIN dagProba THEN dagProba[i] ELSE EmptyMap) }

\* Tokenizer.Cut(text, false) of tokenizer.go: the outcomes it can have.
tokenizerCut(text) ==
    LET dag == tokenizerBuildDAG(text) IN
    { [status |-> r.status,
       tokens |-> IF r.status = "returns" THEN cutDAG(text, r.path) ELSE <<>>] :
        r \in tokenizerFindBestPath(text, tokenizerDagProbaFrom(text, dag, 0), 0) }

-----------------------------------------------------------------------------
(* Construction: the dictionary file and the HMM tables.                   *)

RECURSIVE fileLines(_, _, _, _)
\* The scanner loop of newPrefixDictionaryFromFile from line i on: no
\* prefixes are inserted, and of two lines for one word the first is kept.
\* status is "ok", "fatal" (log.Fatal on the Atoi error) or "panic".
fileLines(lines, i, m, sz) ==
    IF i > Len(lines) THEN [status |-> "ok", termFreq |-> m, size |-> sz]
    ELSE
      LET parts == SplitN(lines[i], " ", 3) IN
      IF Len(parts) < 2 THEN [status |-> "panic", termFreq |-> m, size |-> sz]
      ELSE LET r == Atoi(parts[2]) IN
           IF ~r.ok THEN [status |-> "fatal", termFreq |-> m, size |-> sz]
           ELSE IF Found(m, parts[1]) THEN fileLines(lines, i + 1, m, sz)
           ELSE fileLines(lines, i + 1, Put(m, parts[1], r.val), sz + r.val)

\* newPrefixDictionaryFromFile(filename), the file given by its lines.
newPrefixDictionaryFromFile(lines) == fileLines(lines, 1, EmptyMap, 0)

\* newHMM(startProba, transitionProba, emitProba)
newHMM(startProba, transitionProba, emitProba) ==
    [startP |-> startProba, transP |-> transitionProba, emitP |-> emitProba]

\* The start and transition tables of newJiebaHMM, scaled by 100.
jiebaStartP == [B |-> -26, E |-> minFloat, M |-> minFloat, S |-> -147]
jiebaTransP ==
    [B |-> [E |-> -51, M |-> -92],
     E |-> [B |-> -59, S |-> -81],
     M |-> [E |-> -33, M |-> -126],
     S |-> [B |-> -72, S |-> -67]]

\* newJiebaHMM() with prob_emit.json holding emitProba.
newJiebaHMM(emitProba) == newHMM(jiebaStartP, jiebaTransP, emitProba)

-----------------------------------------------------------------------------
(* Inputs.                                                                 *)

\* The longest text handed to a call, in runes.
MaxTextLen == 3

Texts == SeqsUpTo(Rune, MaxTextLen)
HanTexts == SeqsUpTo(Han, MaxTextLen)
NonHanTexts == SeqsUpTo(Rune \ Han, MaxTextLen)

\* A dictionary line "word count".
Line(word, count) == word \o <<" ">> \o count

\* Dictionary files and line lists the tokenizer is built from.
DictLines ==
    { <<Line(<<"han1", "han2">>, <<"2">>)>>,
      <<Line(<<"han1">>, <<"6">>), Line(<<"han1", "han2">>, <<"1">>),
        Line(<<"han1", "han2", "han1">>, <<"1">>), Line(<<"han2", "han1">>, <<"6">>),
        Line(<<"han2">>, <<"1">>)>>,
      <<Line(<<"han1">>, <<"1">>), Line(<<"han1", "han2">>, <<"6">>),
        Line(<<"han2">>, <<"2">>), Line(<<"han2", "han2">>, <<"1">>)>> }

\* The dictionaries a tokenizer is cut with: the zero Tokenizer{} of the
\* tests, NewTokenizer(file) and buildPrefixDictionary(lines).
DictSamples ==
    { [termFreq |-> EmptyMap, size |-> 0] }
    \cup { [termFreq |-> newPrefixDictionaryFromFile(ls).termFreq,
            size     |-> newPrefixDictionaryFromFile(ls).size] : ls \in DictLines }
    \cup { [termFreq |-> buildPrefixDictionary(ls, 0).termFreq,
            size     |-> buildPrefixDictionary(ls, 0).size] : ls \in DictLines }

\* Contents of the emission table: every rune seen in every state, one rune
\* never seen, no rune seen.
EmitSamples ==
    { [s \in States |-> [c \in Han |-> IF c = "han1" THEN -300 ELSE -350]],
      [s \in States |-> [c \in {"han1"} |-> IF s \in {"B", "E"} THEN -250 ELSE -400]],
      [s \in States |-> EmptyMap] }

\* A model with equal transition and emission scores.
FlatHMM ==
    newHMM([B |-> -100, E |-> minFloat, M |-> minFloat, S |-> -100],
           [p \in States |-> [s \in States |-> -100]],
           [s \in States |-> [c \in Han |-> -100]])

HmmSamples == {newJiebaHMM(e) : e \in EmitSamples} \cup {FlatHMM}

-----------------------------------------------------------------------------
(* The sequential caller: a built tokenizer, one call, and the same call   *)
(* once more.                                                              *)

Idle == [op |-> "idle", text |-> <<>>, useHmm |-> FALSE, out |-> <<>>, aux |-> <<>>]
NotAgain == [set |-> FALSE, out |-> <<>>]

\* The value Cut leaves in tk.dag: the DAG of the last Chinese block.
lastDag(blocks, old) ==
    LET zh == SelectSeq(blocks, LAMBDA b : b.doProcess) IN
    IF zh = <<>> THEN old ELSE buildDAG(zh[Len(zh)].text)

\* The value Cut leaves in tk.dagProba.
lastDagProba(blocks, old) ==
    LET zh == SelectSeq(blocks, LAMBDA b : b.doProcess) IN
    IF zh = <<>> THEN old
    ELSE dagProbaFrom(zh[Len(zh)].text, buildDAG(zh[Len(zh)].text), 0)

InitCut ==
    /\ \E d \in DictSamples : termFreq = d.termFreq /\ size = d.size
    /\ hmm \in HmmSamples
    /\ tkDag = EmptyMap
    /\ tkDagProba = EmptyMap
    /\ call = Idle
    /\ again = NotAgain
    /\ calls = 0
    /\ lockW = 0
    /\ lockR = {}
    /\ frames = <<>>
    /\ ret = <<>>
    /\ par = <<>>

\* tk.Cut(text, useHmm)
CallCut ==
    /\ call.op = "idle"
    /\ \E text \in Texts, useHmm \in BOOLEAN :
         /\ \E out \in Cut(text, useHmm) :
              call' = [op |-> "Cut", text |-> text, useHmm |-> useHmm, out |-> out, aux |-> <<>>]
         /\ tkDag' = lastDag(zhBlocks(text), tkDag)
         /\ tkDagProba' = lastDagProba(zhBlocks(text), tkDagProba)
    /\ UNCHANGED <<termFreq, size, hmm, again, calls, lockW, lockR, frames, ret, par>>

\* The same call once more, on the unchanged tokenizer.
CallCutAgain ==
    /\ call.op = "Cut"
    /\ ~again.set
    /\ \E out \in Cut(call.text, call.useHmm) : again' = [set |-> TRUE, out |-> out]
    /\ UNCHANGED <<termFreq, size, hmm, tkDag, tkDagProba, call, calls, lockW, lockR, frames, ret, par>>

\* tk.buildDAG(text)
CallBuildDAG ==
    /\ call.op = "idle"
    /\ \E text \in HanTexts :
         /\ call' = [op |-> "buildDAG", text |-> text, useHmm |-> FALSE,
                     out |-> buildDAG(text), aux |-> <<>>]
         /\ tkDag' = buildDAG(text)
    /\ UNCHANGED <<termFreq, size, hmm, tkDagProba, again, calls, lockW, lockR, frames, ret, par>>

\* tk.findDAGPath(text, tk.buildDAG(text))
CallFindDAGPath ==
    /\ call.op = "idle"
    /\ \E text \in HanTexts :
         LET dag == buildDAG(text) IN
         /\ call' = [op |-> "findDAGPath", text |-> text, useHmm |-> FALSE,
                     out |-> findDAGPath(text, dag), aux |-> dag]
         /\ tkDag' = dag
         /\ tkDagProba' = dagProbaFrom(text, dag, 0)
    /\ UNCHANGED <<termFreq, size, hmm, again, calls, lockW, lockR, frames, ret, par>>

\* tk.hmm.viterbi(text); aux keeps the scores of ending in E and in S that
\* the final choice compared (none for a text of one rune).
CallViterbi ==
    /\ call.op = "idle"
    /\ \E text \in HanTexts \ {<<>>} :
         IF Len(text) = 1
         THEN \E out \in viterbi(text) :
                 call' = [op |-> "viterbi", text |-> text, useHmm |-> TRUE,
                          out |-> out, aux |-> <<>>]
         ELSE \E c \in viterbiConfigs(text, Len(text) - 1) :
                 call' = [op |-> "viterbi", text |-> text, useHmm |-> TRUE,
                          out |-> viterbiPick(c, Len(text)),
                          aux |-> [E |-> c.proba[Len(text) - 1]["E"],
                                   S |-> c.proba[Len(text) - 1]["S"]]]
    /\ UNCHANGED <<termFreq, size, hmm, tkDag, tkDagProba, again, calls, lockW, lockR, frames, ret, par>>

\* tk.cutNonZh(text)
CallCutNonZh ==
    /\ call.op = "idle"
    /\ \E text \in NonHanTexts :
         call' = [op |-> "cutNonZh", text |-> text, useHmm |-> FALSE,
                  out |-> cutNonZh(text), aux |-> <<>>]
    /\ UNCHANGED <<termFreq, size, hmm, tkDag, tkDagProba, again, calls, lockW, lockR, frames, ret, par>>

\* splitText(text, markedIndexes) on the maximal runs of Chinese runes, as
\* Cut calls it, or of alphanumeric runes, as cutNonZh calls it.
CallSplitText ==
    /\ call.op = "idle"
    /\ \E text \in Texts, cls \in {Han, Alnum} :
         call' = [op |-> "splitText", text |-> text, useHmm |-> FALSE,
                  out |-> splitText(text, FindAllIndex(text, cls)),
                  aux |-> FindAllIndex(text, cls)]
    /\ UNCHANGED <<termFreq, size, hmm, tkDag, tkDagProba, again, calls, lockW, lockR, frames, ret, par>>

\* Lists of candidates for maxIndexProba: one to MaxTextLen entries with
\* the end offsets 1, 2, ... and any scores, the floor included.
ProbaSamples == {minFloat, -300, -200, -100}
CandidateLists ==
    { [k \in 1..Len(ps) |-> tailProba(k, ps[k])] : ps \in SeqsUpTo(ProbaSamples, MaxTextLen) \ {<<>>} }

\* tk.maxIndexProba(items)
CallMaxIndexProba ==
    /\ call.op = "idle"
    /\ \E items \in CandidateLists :
         call' = [op |-> "maxIndexProba", text |-> items, useHmm |-> FALSE,
                  out |-> maxIndexProba(items), aux |-> <<>>]
    /\ UNCHANGED <<termFreq, size, hmm, tkDag, tkDagProba, again, calls, lockW, lockR, frames, ret, par>>

\* Tables of previous-step scores: each state at the floor or above it.
ScoreTables == [States -> {minFloat, -200, -100}]

\* tk.hmm.stateTransitionRoute(1, nowState, hiddenStates), the map routes
\* iterated in either order.
CallStateTransitionRoute ==
    /\ call.op = "idle"
    /\ \E nowState \in States, scores \in ScoreTables, rev \in BOOLEAN :
         call' = [op |-> "stateTransitionRoute", text |-> nowState, useHmm |-> FALSE,
                  out |-> stateTransitionRoute(1, nowState, [i \in {0} |-> scores],
                                               RouteOrder(nowState, rev)),
                  aux |-> scores]
    /\ UNCHANGED <<termFreq, size, hmm, tkDag, tkDagProba, again, calls, lockW, lockR, frames, ret, par>>

\* tk.Cut(text, false) of tokenizer.go; aux tells whether it returns.
\* buildDAG and findDAGPath leave their maps in tk.dag and tk.dagProba.
CallTokenizerCut ==
    /\ call.op = "idle"
    /\ \E text \in Texts :
         /\ \E r \in tokenizerCut(text) :
              call' = [op |-> "tokenizer.Cut", text |-> text, useHmm |-> FALSE,
                       out |-> r.tokens, aux |-> r.status]
         /\ tkDag' = tokenizerBuildDAG(text)
         /\ tkDagProba' = tokenizerDagProbaFrom(text, tokenizerBuildDAG(text), 0)
    /\ UNCHANGED <<termFreq, size, hmm, again, calls, lockW, lockR, frames, ret, par>>

NextCut ==
    \/ CallCut
    \/ CallCutAgain
    \/ CallBuildDAG
    \/ CallFindDAGPath
    \/ CallViterbi
    \/ CallCutNonZh
    \/ CallSplitText
    \/ CallMaxIndexProba
    \/ CallStateTransitionRoute
    \/ CallTokenizerCut

SpecCut == InitCut /\ [][NextCut]_vars

-----------------------------------------------------------------------------
(* The dictionary: construction, rebuilding and term insertion.            *)

\* How many calls the caller makes on one tokenizer.
MaxCalls == 2
\* The longest list of lines handed to buildPrefixDictionary.
MaxLines == 2

\* Lines of a dictionary: well formed (with and without a tag), without a
\* count field, with a count that is no number, with an empty count, with an
\* empty word.
LineSamples ==
    { Line(<<"han1">>, <<"2">>),
      Line(<<"han1", "han2">>, <<"1">>),
      Line(<<"han1", "han2">>, <<"6", " ", "a">>),
      Line(<<"han2">>, <<"1", "2">>),
      <<"han1", "han2">>,
      Line(<<"han2">>, <<"a">>),
      Line(<<"han1">>, <<>>),
      Line(<<>>, <<"2">>) }

LineLists == SeqsUpTo(LineSamples, MaxLines)

\* Terms and frequencies handed to addTerm and AddWord.
TermSamples == {<<"han1">>, <<"han1", "han2">>, <<"han2", "han2">>}
FreqSamples == {1, 2}

\* Dictionary files NewTokenizer is given: those of DictLines, an empty
\* file, and a file that names a term twice with different counts.
DictFiles ==
    DictLines \cup
    { <<>>,
      <<Line(<<"han1">>, <<"2">>), Line(<<"han1", "han2">>, <<"1">>),
        Line(<<"han1">>, <<"6">>)>> }

\* NewTokenizer(dictionaryFile) on a file that loads.
InitDict ==
    /\ \E ls \in DictFiles :
         /\ termFreq = newPrefixDictionaryFromFile(ls).termFreq
         /\ size = newPrefixDictionaryFromFile(ls).size
         /\ call = [op |-> "NewTokenizer", text |-> ls, useHmm |-> FALSE,
                    out |-> newPrefixDictionaryFromFile(ls).status, aux |-> <<>>]
    /\ hmm = newJiebaHMM([s \in States |-> EmptyMap])
    /\ tkDag = EmptyMap
    /\ tkDagProba = EmptyMap
    /\ again = NotAgain
    /\ calls = 0
    /\ lockW = 0
    /\ lockR = {}
    /\ frames = <<>>
    /\ ret = <<>>
    /\ par = <<>>

\* Whether the process is still running: a panic ends it.
Alive == ~(call.op = "buildPrefixDictionary" /\ call.out = "panic")

\* tk.buildPrefixDictionary(lines)
CallBuildPrefixDictionary ==
    /\ Alive
    /\ calls < MaxCalls
    /\ \E lines \in LineLists :
         LET r == buildPrefixDictionary(lines, size) IN
         /\ termFreq' = r.termFreq
         /\ size' = r.size
         /\ call' = [op |-> "buildPrefixDictionary", text |-> lines, useHmm |-> FALSE,
                     out |-> r.status, aux |-> [termFreq |-> termFreq, size |-> size]]
    /\ calls' = calls + 1
    /\ UNCHANGED <<hmm, tkDag, tkDagProba, again, lockW, lockR, frames, ret, par>>

\* tk.pd.addTerm(term, freq), the lock free
CallAddTerm ==
    /\ Alive
    /\ calls < MaxCalls
    /\ \E term \in TermSamples, freq \in FreqSamples :
         LET r == addTermWrite(termFreq, size, term, freq) IN
         /\ termFreq' = r.termFreq
         /\ size' = r.size
         /\ call' = [op |-> "addTerm", text |-> term, useHmm |-> FALSE,
                     out |-> freq, aux |-> [termFreq |-> termFreq, size |-> size]]
    /\ calls' = calls + 1
    /\ UNCHANGED <<hmm, tkDag, tkDagProba, again, lockW, lockR, frames, ret, par>>

\* tk.buildPrefixDictionary(lines) after a successful build from a list:
\* the same list followed by itself.
CallBuildPrefixDictionaryTwice ==
    /\ call.op = "buildPrefixDictionary" /\ call.out = "ok"
    /\ calls < MaxCalls
    /\ LET r == buildPrefixDictionary(call.text \o call.text, size) IN
       /\ termFreq' = r.termFreq
       /\ size' = r.size
       /\ call' = [op |-> "buildPrefixDictionary twice", text |-> call.text,
                   useHmm |-> FALSE, out |-> r.status,
                   aux |-> [termFreq |-> termFreq, size |-> size]]
    /\ calls' = calls + 1
    /\ UNCHANGED <<hmm, tkDag, tkDagProba, again, lockW, lockR, frames, ret, par>>

\* NewTokenizer(dictionaryFile) once more, on a file holding the lines of
\* the first file followed by the same lines again.
CallNewTokenizerTwice ==
    /\ call.op = "NewTokenizer" /\ call.out = "ok"
    /\ calls < MaxCalls
    /\ LET r == newPrefixDictionaryFromFile(call.text \o call.text) IN
       /\ termFreq' = r.termFreq
       /\ size' = r.size
       /\ call' = [op |-> "NewTokenizer twice", text |-> call.text,
                   useHmm |-> FALSE, out |-> r.status,
                   aux |-> [termFreq |-> termFreq, size |-> size]]
    /\ calls' = calls + 1
    /\ UNCHANGED <<hmm, tkDag, tkDagProba, again, lockW, lockR, frames, ret, par>>

NextDict ==
    \/ CallBuildPrefixDictionary
    \/ CallAddTerm
    \/ CallBuildPrefixDictionaryTwice
    \/ CallNewTokenizerTwice

SpecDict == InitDict /\ [][NextDict]_vars

-----------------------------------------------------------------------------
(* Goroutines calling AddWord, addTerm and Cut on one tokenizer: the        *)
(* reader/writer lock tk.pd.lock.                                          *)

\* How many goroutines call the tokenizer.
NumGoroutines == 2

Goroutines == 1..NumGoroutines

\* The texts the goroutines cut.
LockTexts == {<<"han1", "han2">>, <<"han2", "a">>}

\* A call in progress: the function, where it stands, its arguments, and sz,
\* the value of pd.size it read (suggestFreq's dSize) or found when it took
\* the lock (addTerm).
frame(fn, pc, arg, freq) == [fn |-> fn, pc |-> pc, arg |-> arg, freq |-> freq, sz |-> 0]

Top(g) == frames[g].stack[Len(frames[g].stack)]
HasTop(g) == frames[g].st = "run" /\ Len(frames[g].stack) > 0

\* The stack of g with its top frame replaced, or dropped.
SetTop(g, f) == [frames[g].stack EXCEPT ![Len(frames[g].stack)] = f]
Pop(g) == SubSeq(frames[g].stack, 1, Len(frames[g].stack) - 1)

\* g after its top frame returned: the caller's frame resumes, or g is done.
Returned(g) ==
    [st |-> IF Len(frames[g].stack) = 1 THEN "done" ELSE "run", stack |-> Pop(g)]

RECURSIVE Product(_)
Product(ns) == IF ns = <<>> THEN 1 ELSE Head(ns) * Product(Tail(ns))

RECURSIVE Power(_, _)
Power(b, e) == IF e <= 0 THEN 1 ELSE b * Power(b, e - 1)

\* prefixDictionary.suggestFreq after tk.Cut returned pieces, with dSize as
\* read on entry: int(freq*dSize) + 1 against the term's current count.
suggestFreq(term, pieces, dSize) ==
    LET pf == [k \in 1..Len(pieces) |->
                  IF Found(termFreq, pieces[k]) THEN termFreq[pieces[k]] ELSE 1]
        a  == (IF Len(pieces) = 0 THEN dSize
               ELSE Product(pf) \div Power(dSize, Len(pieces) - 1)) + 1
        b  == IF Found(termFreq, term) THEN termFreq[term] ELSE 1
    IN  IF a > b THEN a ELSE b

InitLock ==
    /\ \E ls \in DictLines :
         /\ termFreq = buildPrefixDictionary(ls, 0).termFreq
         /\ size = buildPrefixDictionary(ls, 0).size
    /\ hmm = newJiebaHMM([s \in States |-> EmptyMap])
    /\ tkDag = EmptyMap
    /\ tkDagProba = EmptyMap
    /\ call = Idle
    /\ again = NotAgain
    /\ calls = 0
    /\ lockW = 0
    /\ lockR = {}
    /\ frames = [g \in Goroutines |-> [st |-> "new", stack |-> <<>>]]
    /\ ret = [g \in Goroutines |-> <<>>]
    /\ par = <<>>

\* go tk.AddWord(word, freq)
StartAddWord(g) ==
    /\ frames[g].st = "new"
    /\ \E word \in TermSamples, freq \in {0} \cup FreqSamples :
         frames' = [frames EXCEPT ![g] =
             [st |-> "run",
              stack |-> <<frame("AddWord", IF freq < 1 THEN "suggest" ELSE "lock", word, freq)>>]]
    /\ UNCHANGED <<termFreq, size, hmm, tkDag, tkDagProba, call, again, calls, lockW, lockR, ret, par>>

\* go tk.pd.addTerm(term, freq)
StartAddTerm(g) ==
    /\ frames[g].st = "new"
    /\ \E term \in TermSamples, freq \in FreqSamples :
         frames' = [frames EXCEPT ![g] =
             [st |-> "run", stack |-> <<frame("addTerm", "lock", term, freq)>>]]
    /\ UNCHANGED <<termFreq, size, hmm, tkDag, tkDagProba, call, again, calls, lockW, lockR, ret, par>>

\* go tk.Cut(text, false)
StartCut(g) ==
    /\ frames[g].st = "new"
    /\ \E text \in LockTexts :
         frames' = [frames EXCEPT ![g] =
             [st |-> "run", stack |-> <<frame("Cut", "rlock", text, 0)>>]]
    /\ UNCHANGED <<termFreq, size, hmm, tkDag, tkDagProba, call, again, calls, lockW, lockR, ret, par>>

\* AddWord with freq < 1 calls suggestFreq, which reads pd.size and calls
\* tk.Cut(term, false).
SuggestReadSize(g) ==
    /\ HasTop(g)
    /\ Top(g).fn = "AddWord" /\ Top(g).pc = "suggest"
    /\ frames' = [frames EXCEPT ![g].stack =
           SetTop(g, [Top(g) EXCEPT !.pc = "suggested"])
             \o <<[frame("suggestFreq", "freq", Top(g).arg, 0)
                     EXCEPT !.sz = IF size < 1 THEN 1 ELSE size],
                  frame("Cut", "rlock", Top(g).arg, 0)>>]
    /\ UNCHANGED <<termFreq, size, hmm, tkDag, tkDagProba, call, again, calls, lockW, lockR, ret, par>>

\* suggestFreq, after Cut returned: reads pd.termFreq and returns the
\* frequency to AddWord.
SuggestFreq(g) ==
    /\ HasTop(g)
    /\ Top(g).fn = "suggestFreq" /\ Top(g).pc = "freq"
    /\ LET f      == suggestFreq(Top(g).arg, ret[g], Top(g).sz)
           st     == Pop(g)
           parent == st[Len(st)]
       IN  frames' = [frames EXCEPT ![g].stack =
               [st EXCEPT ![Len(st)] = [parent EXCEPT !.freq = f, !.pc = "lock"]]]
    /\ UNCHANGED <<termFreq, size, hmm, tkDag, tkDagProba, call, again, calls, lockW, lockR, ret, par>>

\* lock.Lock() in AddWord (which then calls addTerm) and in addTerm.
Lock(g) ==
    /\ HasTop(g)
    /\ Top(g).pc = "lock"
    /\ lockW = 0 /\ lockR = {}
    /\ lockW' = g
    /\ frames' = [frames EXCEPT ![g].stack =
           IF Top(g).fn = "AddWord"
           THEN SetTop(g, [Top(g) EXCEPT !.pc = "unlock"])
                  \o <<frame("addTerm", "lock", Top(g).arg, Top(g).freq)>>
           ELSE SetTop(g, [Top(g) EXCEPT !.pc = "write", !.sz = size])]
    /\ UNCHANGED <<termFreq, size, hmm, tkDag, tkDagProba, call, again, calls, lockR, ret, par>>

\* The two assignments of addTerm.
Write(g) ==
    /\ HasTop(g)
    /\ Top(g).fn = "addTerm" /\ Top(g).pc = "write"
    /\ termFreq' = addTermWrite(termFreq, size, Top(g).arg, Top(g).freq).termFreq
    /\ size' = addTermWrite(termFreq, size, Top(g).arg, Top(g).freq).size
    /\ frames' = [frames EXCEPT ![g].stack = SetTop(g, [Top(g) EXCEPT !.pc = "unlock"])]
    /\ UNCHANGED <<hmm, tkDag, tkDagProba, call, again, calls, lockW, lockR, ret, par>>

\* The deferred lock.Unlock() of addTerm and of AddWord, and the return.
\* What addTerm leaves behind is recorded as its result: what a lookup of
\* the term finds and by how much the corpus size grew under the lock.
Unlock(g) ==
    /\ HasTop(g)
    /\ Top(g).pc = "unlock"
    /\ lockW' = 0
    /\ frames' = [frames EXCEPT ![g] = Returned(g)]
    /\ ret' = [ret EXCEPT ![g] =
           IF Top(g).fn = "addTerm"
           THEN [found |-> Found(termFreq, Top(g).arg),
                 freq  |-> Get(termFreq, Top(g).arg),
                 grew  |-> size - Top(g).sz]
           ELSE ret[g]]
    /\ UNCHANGED <<termFreq, size, hmm, tkDag, tkDagProba, call, again, calls, lockR, par>>

\* lock.RLock() in Cut.
RLock(g) ==
    /\ HasTop(g)
    /\ Top(g).fn = "Cut" /\ Top(g).pc = "rlock"
    /\ lockW = 0
    /\ lockR' = lockR \cup {g}
    /\ frames' = [frames EXCEPT ![g].stack = SetTop(g, [Top(g) EXCEPT !.pc = "runlock"])]
    /\ UNCHANGED <<termFreq, size, hmm, tkDag, tkDagProba, call, again, calls, lockW, ret, par>>

\* Cut leaves: the deferred lock.RUnlock() and the return, to suggestFreq or
\* to the caller.
CutReturns(g) ==
    /\ HasTop(g)
    /\ Top(g).fn = "Cut" /\ Top(g).pc = "runlock"
    /\ lockR' = lockR \ {g}
    /\ lockW' = lockW
    /\ frames' = [frames EXCEPT ![g] = Returned(g)]

\* The body of Cut under the shared lock, and its return.
RUnlock(g) ==
    /\ CutReturns(g)
    /\ \E out \in Cut(Top(g).arg, FALSE) : ret' = [ret EXCEPT ![g] = out]
    /\ tkDag' = lastDag(zhBlocks(Top(g).arg), tkDag)
    /\ tkDagProba' = lastDagProba(zhBlocks(Top(g).arg), tkDagProba)
    /\ UNCHANGED <<termFreq, size, hmm, call, again, calls, par>>

NextLock ==
    \E g \in Goroutines :
        \/ StartAddWord(g)
        \/ StartAddTerm(g)
        \/ StartCut(g)
        \/ SuggestReadSize(g)
        \/ SuggestFreq(g)
        \/ Lock(g)
        \/ Write(g)
        \/ Unlock(g)
        \/ RLock(g)
        \/ RUnlock(g)

SpecLock == InitLock /\ [][NextLock]_vars

\* The lock and the goroutines' positions, and a step of goroutine g in
\* them.  Whether g can run does not depend on what Cut computes.
sched == <<lockW, lockR, frames>>

GoStep(g) ==
    \/ SuggestReadSize(g)
    \/ SuggestFreq(g)
    \/ Lock(g)
    \/ Write(g)
    \/ Unlock(g)
    \/ RLock(g)
    \/ CutReturns(g)

\* The scheduler runs every goroutine that can take a step.
FairSpecLock == SpecLock /\ \A g \in Goroutines : WF_sched(GoStep(g))

-----------------------------------------------------------------------------
(* CutParallel: the producer, the workers, the goroutine closing the       *)
(* result channel and the collector, after a Cut of the same text.         *)

\* The most workers CutParallel is called with.
MaxWorkers == 2

\* The longest text handed to CutParallel, in runes.
MaxParLen == 3

ParTexts == SeqsUpTo({"han1", "a", "+", " "}, MaxParLen)

RECURSIVE ByteLen(_)
\* len(text): a Chinese rune takes three bytes in UTF-8, the others one.
ByteLen(text) ==
    IF text = <<>> THEN 0
    ELSE (IF Head(text) \in Han THEN 3 ELSE 1) + ByteLen(Tail(text))

resultBlock(id, tokens) == [id |-> id, tokens |-> tokens]

\* A channel made with make(chan T, cap).
makeChan(cap) == [buf |-> <<>>, cap |-> cap, closed |-> FALSE]

\* ch <- v on a channel that never hands a value over directly: only a
\* free place in the buffer lets the send proceed.
CanSendBuffered(ch, receiverWaits) == Len(ch.buf) < ch.cap

\* ch <- v can proceed: there is room in the buffer, or, for a channel
\* without buffer, a receiver is waiting and no value is on its way to one.
CanSend(ch, receiverWaits) ==
    IF ch.cap = 0 THEN ch.buf = <<>> /\ receiverWaits ELSE Len(ch.buf) < ch.cap

\* The orders sort.Slice by id can leave rblocks in.
sortById(rblocks) ==
    { [k \in 1..Len(rblocks) |-> rblocks[perm[k]]] :
        perm \in { f \in [1..Len(rblocks) -> 1..Len(rblocks)] :
                     /\ \A i, j \in 1..Len(rblocks) : i # j => f[i] # f[j]
                     /\ \A i, j \in 1..Len(rblocks) :
                          i < j => rblocks[f[i]].id <= rblocks[f[j]].id } }

\* The tokens of the result blocks, block after block, the last block's
\* tokens ahead of the others.
tokensLastBlockSplit(rblocks) ==
    LET all == Flatten([k \in 1..Len(rblocks) |-> rblocks[k].tokens]) IN
    IF Len(all) < 3 THEN all
    ELSE <<all[Len(all)]>> \o SubSeq(all, 1, Len(all) - 1)

\* The tokens of the result blocks, block after block.
tokensOf(rblocks) == Flatten([k \in 1..Len(rblocks) |-> rblocks[k].tokens])

NoPar == [pc |-> "idle"]

InitPar ==
    /\ \E ls \in {<<Line(<<"han1", "han2">>, <<"2">>)>>} :
         /\ termFreq = newPrefixDictionaryFromFile(ls).termFreq
         /\ size = newPrefixDictionaryFromFile(ls).size
    /\ hmm \in {FlatHMM, newJiebaHMM([s \in States |-> [c \in Han |-> -300]])}
    /\ tkDag = EmptyMap
    /\ tkDagProba = EmptyMap
    /\ call = Idle
    /\ again = NotAgain
    /\ calls = 0
    /\ lockW = 0
    /\ lockR = {}
    /\ frames = <<>>
    /\ ret = <<>>
    /\ par = NoPar

\* tk.Cut(text, useHmm), the call CutParallel is compared with.
ParCallCut ==
    /\ call.op = "idle"
    /\ \E text \in ParTexts, useHmm \in BOOLEAN :
         /\ \E out \in Cut(text, useHmm) :
              call' = [op |-> "Cut", text |-> text, useHmm |-> useHmm, out |-> out, aux |-> <<>>]
         /\ tkDag' = lastDag(zhBlocks(text), tkDag)
         /\ tkDagProba' = lastDagProba(zhBlocks(text), tkDagProba)
    /\ UNCHANGED <<termFreq, size, hmm, again, calls, lockW, lockR, frames, ret, par>>

\* tk.CutParallel(text, hmm, numWorkers, ordered) up to its collecting loop:
\* the shared lock, the channels, and the goroutines launched.
CallCutParallel ==
    /\ call.op = "Cut"
    /\ par.pc = "idle"
    /\ lockW = 0
    /\ lockR' = lockR \cup {1}
    /\ \E numWorkers \in 1..MaxWorkers, ordered \in BOOLEAN :
         /\ ret' = [w \in 1..numWorkers |-> <<>>]
         /\ par' = [pc           |-> "collect",
                     text         |-> call.text,
                     useHmm       |-> call.useHmm,
                     numWorkers   |-> numWorkers,
                     ordered      |-> ordered,
                     todo         |-> zhBlocks(call.text),
                     blocks       |-> makeChan(ByteLen(call.text)),
                     result       |-> makeChan(ByteLen(call.text)),
                     stopClosed   |-> FALSE,
                     wg           |-> numWorkers,
                     workers      |-> [w \in 1..numWorkers |-> [pc |-> "range", b |-> <<>>]],
                     rblocks      |-> <<>>,
                     tokens       |-> <<>>]
    /\ UNCHANGED <<termFreq, size, hmm, tkDag, tkDagProba, call, again, calls, lockW, frames>>

Running == par.pc \in {"collect", "done"}
Workers == IF Running THEN DOMAIN par.workers ELSE {}

\* The producer goroutine: blocks <- block.
ProducerSend ==
    /\ Running
    /\ par.todo # <<>>
    /\ CanSend(par.blocks, \E w \in Workers : par.workers[w].pc = "range")
    /\ par' = [par EXCEPT !.blocks.buf = @ \o <<Head(par.todo)>>, !.todo = Tail(@)]
    /\ UNCHANGED <<termFreq, size, hmm, tkDag, tkDagProba, call, again, calls, lockW, lockR, frames, ret>>

\* The producer goroutine: the deferred close(blocks).
ProducerClose ==
    /\ Running
    /\ par.todo = <<>>
    /\ ~par.blocks.closed
    /\ par' = [par EXCEPT !.blocks.closed = TRUE]
    /\ UNCHANGED <<termFreq, size, hmm, tkDag, tkDagProba, call, again, calls, lockW, lockR, frames, ret>>

\* worker: for b := range blocks receives a block.
WorkerRecv(w) ==
    /\ par.workers[w].pc = "range"
    /\ par.blocks.buf # <<>>
    /\ par' = [par EXCEPT !.blocks.buf = Tail(@),
                          !.workers[w] = [pc |-> "cut", b |-> Head(par.blocks.buf)]]
    /\ UNCHANGED <<termFreq, size, hmm, tkDag, tkDagProba, call, again, calls, lockW, lockR, frames, ret>>

\* worker: cutBlock is entered and returns, as far as the scheduling goes.
WorkerCutReturns(w) ==
    /\ par.workers[w].pc = "cut"
    /\ par' = [par EXCEPT !.workers[w].pc = "select"]
    /\ lockR' = lockR

\* worker: the operand resultBlock{b.id, tk.cutBlock(b, hmm)} of the send,
\* evaluated on entering the select; cutBlock writes tk.dag and tk.dagProba.
\* ret[w] holds the tokens until they are sent.
WorkerCut(w) ==
    /\ WorkerCutReturns(w)
    /\ LET b == par.workers[w].b IN
       /\ \E tokens \in cutBlock(b, par.useHmm) : ret' = [ret EXCEPT ![w] = tokens]
       /\ tkDag' = IF b.doProcess THEN buildDAG(b.text) ELSE tkDag
       /\ tkDagProba' = IF b.doProcess THEN dagProbaFrom(b.text, buildDAG(b.text), 0)
                        ELSE tkDagProba
    /\ UNCHANGED <<termFreq, size, hmm, call, again, calls, lockW, frames>>

\* The select of a worker whose stop channel is already closed: either case
\* may be taken.
WorkerSelectStopClosed(w) ==
    /\ par.workers[w].pc = "select"
    /\ \/ /\ CanSend(par.result, par.pc = "collect")
          /\ par' = [par EXCEPT !.result.buf =
                                   @ \o <<resultBlock(par.workers[w].b.id, ret[w])>>,
                                !.workers[w] = [pc |-> "range", b |-> <<>>]]
       \/ par' = [par EXCEPT !.workers[w] = [pc |-> "returned", b |-> <<>>]]
    /\ UNCHANGED <<termFreq, size, hmm, tkDag, tkDagProba, call, again, calls, lockW, lockR, frames, ret>>

\* worker: select { case <-stop: return; case result <- rb: }
WorkerSelect(w) ==
    /\ par.workers[w].pc = "select"
    /\ IF par.stopClosed /\ ~CanSend(par.result, par.pc = "collect")
       THEN par' = [par EXCEPT !.workers[w] = [pc |-> "returned", b |-> <<>>]]
       ELSE /\ CanSend(par.result, par.pc = "collect")
            /\ \/ par' = [par EXCEPT !.result.buf =
                                        @ \o <<resultBlock(par.workers[w].b.id, ret[w])>>,
                                     !.workers[w] = [pc |-> "range", b |-> <<>>]]
               \/ /\ par.stopClosed
                  /\ par' = [par EXCEPT !.workers[w] = [pc |-> "returned", b |-> <<>>]]
    /\ UNCHANGED <<termFreq, size, hmm, tkDag, tkDagProba, call, again, calls, lockW, lockR, frames, ret>>

\* worker returns, at the end of the range over the closed and drained
\* blocks or from the stop case; then wg.Done().
WorkerDone(w) ==
    /\ \/ par.workers[w].pc = "range" /\ par.blocks.buf = <<>> /\ par.blocks.closed
       \/ par.workers[w].pc = "returned"
    /\ par' = [par EXCEPT !.workers[w] = [pc |-> "done", b |-> <<>>],
                          !.wg = @ - 1]
    /\ UNCHANGED <<termFreq, size, hmm, tkDag, tkDagProba, call, again, calls, lockW, lockR, frames, ret>>

\* The closing goroutine: wg.Wait(), then the deferred close(result).
CloseResult ==
    /\ Running
    /\ par.wg = 0
    /\ ~par.result.closed
    /\ par' = [par EXCEPT !.result.closed = TRUE]
    /\ UNCHANGED <<termFreq, size, hmm, tkDag, tkDagProba, call, again, calls, lockW, lockR, frames, ret>>

\* The collector: for rb := range result receives a result block.
Collect ==
    /\ par.pc = "collect"
    /\ par.result.buf # <<>>
    /\ par' = [par EXCEPT !.result.buf = Tail(@),
                          !.rblocks = @ \o <<Head(par.result.buf)>>]
    /\ UNCHANGED <<termFreq, size, hmm, tkDag, tkDagProba, call, again, calls, lockW, lockR, frames, ret>>

\* The range over result ends: the blocks are sorted if ordered, their
\* tokens extracted and returned; the deferred close(stop) and RUnlock run.
Return ==
    /\ par.pc = "collect"
    /\ par.result.buf = <<>> /\ par.result.closed
    /\ \E sorted \in (IF par.ordered THEN sortById(par.rblocks) ELSE {par.rblocks}) :
         par' = [par EXCEPT !.pc = "done", !.tokens = tokensOf(sorted), !.stopClosed = TRUE]
    /\ lockR' = lockR \ {1}
    /\ UNCHANGED <<termFreq, size, hmm, tkDag, tkDagProba, call, again, calls, lockW, frames, ret>>

NextPar ==
    \/ ParCallCut
    \/ CallCutParallel
    \/ ProducerSend
    \/ ProducerClose
    \/ \E w \in Workers : WorkerRecv(w)
    \/ \E w \in Workers : WorkerCut(w)
    \/ \E w \in Workers : WorkerSelect(w)
    \/ \E w \in Workers : WorkerDone(w)
    \/ CloseResult
    \/ Collect
    \/ Return

SpecPar == InitPar /\ [][NextPar]_vars

\* What the scheduling of a CutParallel call depends on.
parSched == <<par, lockR>>

\* The steps of worker w the scheduler sees.
Worker(w) ==
    /\ w \in Workers
    /\ (WorkerRecv(w) \/ WorkerCutReturns(w) \/ WorkerSelect(w) \/ WorkerDone(w))

\* The scheduler runs every goroutine that can take a step: the producer,
\* each worker, the goroutine closing result, and the collector.
FairSpecPar ==
    /\ SpecPar
    /\ WF_parSched(ProducerSend \/ ProducerClose)
    /\ \A w \in 1..MaxWorkers : WF_parSched(Worker(w))
    /\ WF_parSched(CloseResult)
    /\ WF_parSched(Collect \/ Return)

-----------------------------------------------------------------------------
(* Properties of the sequential calls.                                     *)

RangeOf(l) == {l[k] : k \in 1..Len(l)}

\* The text without its whitespace runes.
WithoutSpace(text) == SelectSeq(text, LAMBDA r : r \notin Space)

\* C2: concatenating the tokens returned by Cut(T, hmm) in order gives T with
\* its whitespace runes removed: no other rune is dropped, duplicated or
\* reordered.
C2_CutCoversText ==
    call.op = "Cut" => Flatten(call.out) = WithoutSpace(call.text)

\* C5: Cut is deterministic: a second call on the same text with the same
\* term table, corpus size and HMM tables returns the same token list as the
\* first, also when two routes or candidates have equal scores.
C5_CutDeterministic ==
    again.set => again.out = call.out

RECURSIVE AllPaths(_, _, _)
\* Every path of the DAG from offset i to offset n, as (start, end) pairs.
AllPaths(dag, i, n) ==
    IF i = n THEN {<<>>}
    ELSE UNION {{<<(<<i, j>>)>> \o q : q \in AllPaths(dag, j, n)}
                : j \in {e \in RangeOf(ListAt(dag, i)) : e > i /\ e <= n}}

RECURSIVE PathScore(_, _)
\* The total score of a path: the sum of its pieces' log-probabilities.
PathScore(text, path) ==
    IF path = <<>> THEN 0
    ELSE FAdd(pieceFreq(text, path[1][1], path[1][2]), PathScore(text, Tail(path)))

\* C6: the path returned by findDAGPath has the maximum total score among
\* all paths of the DAG from offset 0 to offset n, also at offsets with
\* three or more outgoing edges.
C6_BestPathIsMaximal ==
    call.op = "findDAGPath" =>
        /\ call.out \in AllPaths(call.aux, 0, Len(call.text))
        /\ \A q \in AllPaths(call.aux, 0, Len(call.text)) :
               FGe(PathScore(call.text, call.out), PathScore(call.text, q))

\* The end offsets j > i for which text[i:j] is a key with frequency > 0.
TermEnds(text, i) ==
    {j \in (i + 1)..Len(text) :
        Found(termFreq, Slice(text, i, j)) /\ termFreq[Slice(text, i, j)] > 0}

\* C7: buildDAG maps each offset i to exactly the end offsets j > i for
\* which text[i:j] is a key with frequency > 0, and to the single fallback
\* edge i+1 only when no such term starts at i.
C7_DagEdgesAreTerms ==
    call.op = "buildDAG" =>
        \A i \in 0..(Len(call.text) - 1) :
            LET ends == ListAt(call.out, i) IN
            /\ Len(ends) = Cardinality(RangeOf(ends))
            /\ RangeOf(ends) = IF TermEnds(call.text, i) = {} THEN {i + 1}
                               ELSE TermEnds(call.text, i)

\* C8: for every input of n >= 1 runes and every HMM table content, the
\* state path returned by viterbi has length exactly n.
C8_ViterbiPathLength ==
    call.op = "viterbi" => Len(call.out) = Len(call.text)

RECURSIVE NonZhTokens(_)
\* One token per maximal run of [A-Za-z0-9], one single-rune token per other
\* rune that is not whitespace, nothing for whitespace, in text order.
NonZhTokens(t) ==
    IF t = <<>> THEN <<>>
    ELSE IF Head(t) \in Alnum
         THEN LET e == runEnd(t, Alnum, 0) IN
              <<SubSeq(t, 1, e)>> \o NonZhTokens(SubSeq(t, e + 1, Len(t)))
         ELSE IF Head(t) \in Space THEN NonZhTokens(Tail(t))
         ELSE <<(<<Head(t)>>)>> \o NonZhTokens(Tail(t))

\* C9: cutNonZh returns, in text order, one token per maximal alphanumeric
\* run and one single-rune token per other non-whitespace rune, also for a
\* block with no alphanumeric run at all.
C9_CutNonZhTokens ==
    call.op = "cutNonZh" => call.out = NonZhTokens(call.text)

\* C16: for every text and every list of maximal marked runs, the blocks of
\* splitText carry the ids 0, 1, ..., k-1 from left to right, and their
\* texts concatenated in that order are the input text.
C16_SplitTextCovers ==
    call.op = "splitText" =>
        /\ \A k \in 1..Len(call.out) : call.out[k].id = k - 1
        /\ Flatten([k \in 1..Len(call.out) |-> call.out[k].text]) = call.text

\* A marked run with a gap on either side: three blocks.
C16_GapsOnBothSides ==
    /\ call.op = "splitText"
    /\ call.text = <<"a", "han1", "+">>
    /\ call.aux = << <<1, 2>> >>
    /\ Len(call.out) = 3

\* C17: for every text of n runes and every term table, the DAG of buildDAG
\* has at least one edge from every offset in [0, n), and every edge i -> j
\* has i < j <= n.
C17_DagHasEdgeFromEveryOffset ==
    call.op = "buildDAG" =>
        /\ \A i \in 0..(Len(call.text) - 1) :
             i \in DOMAIN call.out /\ Len(call.out[i]) >= 1
        /\ \A i \in DOMAIN call.out : \A k \in 1..Len(call.out[i]) :
             i < call.out[i][k] /\ call.out[i][k] <= Len(call.text)

\* A text whose first rune is a key with count 0 and whose second rune is
\* no key: both offsets get the fallback edge.
C17_ZeroCountAndAbsentRune ==
    /\ call.op = "buildDAG"
    /\ call.text = <<"han1", "han2">>
    /\ Found(termFreq, <<"han1">>) /\ termFreq[<<"han1">>] = 0
    /\ ~Found(termFreq, <<"han2">>)
    /\ call.out = [i \in {0, 1} |-> <<i + 1>>]

\* C18: for every text of n runes, the path of findDAGPath on the DAG of
\* buildDAG starts at 0, each pair starts where the previous one ended, each
\* pair has start < end, the last pair ends at n, and each pair is an edge
\* of the DAG.
C18_PathIsContiguous ==
    call.op = "findDAGPath" =>
        LET path == call.out
            dag  == call.aux
            n    == Len(call.text)
        IN  /\ n = 0 => path = <<>>
            /\ n > 0 => (path # <<>> /\ path[1][1] = 0 /\ path[Len(path)][2] = n)
            /\ \A k \in 2..Len(path) : path[k][1] = path[k - 1][2]
            /\ \A k \in 1..Len(path) :
                 /\ path[k][1] < path[k][2]
                 /\ path[k][1] \in DOMAIN dag
                 /\ \E e \in 1..Len(dag[path[k][1]]) : dag[path[k][1]][e] = path[k][2]

\* A path through a count-0 prefix: the only edge from offset 0 scores -Inf.
C18_PathThroughZeroCount ==
    /\ call.op = "findDAGPath"
    /\ call.text = <<"han1", "han2">>
    /\ Found(termFreq, <<"han1">>) /\ termFreq[<<"han1">>] = 0
    /\ call.out = << <<0, 1>>, <<1, 2>> >>

\* The legal transitions: next state <- previous states.
LegalPrevious ==
    [B |-> {"E", "S"}, M |-> {"B", "M"}, E |-> {"B", "M"}, S |-> {"E", "S"}]

\* C19: in every state path viterbi returns, each adjacent pair (previous
\* state, next state) is a legal transition, and the last state is E or S.
C19_ViterbiPathIsLegal ==
    call.op = "viterbi" =>
        /\ call.out # <<>>
        /\ call.out[Len(call.out)] \in {"E", "S"}
        /\ \A k \in 2..Len(call.out) : call.out[k - 1] \in LegalPrevious[call.out[k]]

\* A path over three runes that passes through the middle state.
C19_BeginMiddleEnd ==
    /\ call.op = "viterbi"
    /\ call.out = <<"B", "M", "E">>

\* C26: for every non-empty list of candidates, maxIndexProba returns a
\* candidate whose probability is the maximum of the list, and of several
\* candidates with that maximum the last one in list order.
C26_MaxIndexProbaIsMaximum ==
    call.op = "maxIndexProba" =>
        LET items == call.text
            top   == {k \in 1..Len(items) :
                        \A j \in 1..Len(items) : items[k].proba >= items[j].proba}
            last  == CHOOSE k \in top : \A j \in top : j <= k
        IN  call.out = items[last]

\* C27: for every state s and every table of previous-step scores, scores
\* at or below the floor included, stateTransitionRoute returns as `from` a
\* legal predecessor of s that maximizes previousScore[p] + transP[p][s],
\* and returns that sum as the score of the route.
C27_RouteIsBestPredecessor ==
    call.op = "stateTransitionRoute" =>
        LET s      == call.text
            sum(p) == FAdd(call.aux[p], FloatAt2(hmm.transP, p, s))
        IN  /\ call.out.from \in LegalPrevious[s]
            /\ call.out.proba = sum(call.out.from)
            /\ \A p \in LegalPrevious[s] : FGe(call.out.proba, sum(p))

\* C28: in findDAGPath the frequency whose logarithm is taken is always at
\* least 1, a piece that is absent or present with count 0 being scored as
\* frequency 1, so that no stored path score is negative infinity.
C28_NoInfiniteScore ==
    call.op = "findDAGPath" =>
        \A i \in DOMAIN tkDagProba : \A k \in 1..Len(tkDagProba[i]) :
            tkDagProba[i][k].proba # NegInf

\* C29: when the scores of ending in E and of ending in S are equal at the
\* last position, viterbi returns the path that ends in E.
C29_TieFavoursE ==
    (call.op = "viterbi" /\ Len(call.text) >= 2 /\ call.aux.E = call.aux.S /\ call.aux.E # NaN)
        => call.out[Len(call.out)] = "E"

\* The rune at offset i of text is a key with count 0 and no longer key of
\* the term table starts at it in text.
PrefixOnlyAt(text, i) ==
    /\ Found(termFreq, <<text[i + 1]>>) /\ termFreq[<<text[i + 1]>>] = 0
    /\ (i + 2 <= Len(text) => ~Found(termFreq, Slice(text, i, i + 2)))

\* Token k of tokens is the single rune at offset i of text.
IsTokenAt(text, tokens, k, i) ==
    /\ Len(Flatten(SubSeq(tokens, 1, k - 1))) = i
    /\ tokens[k] = <<text[i + 1]>>

\* C30: in tokenizer.go, Cut(text, false) terminates for every text and term
\* table, and a rune that is a key with count 0 with no longer key starting
\* at it comes out as one single-rune token.
C30_TokenizerCutTerminates ==
    call.op = "tokenizer.Cut" =>
        /\ call.aux = "returns"
        /\ \A i \in 0..(Len(call.text) - 1) :
             PrefixOnlyAt(call.text, i) =>
                 \E k \in 1..Len(call.out) : IsTokenAt(call.text, call.out, k, i)

-----------------------------------------------------------------------------
(* Properties of the dictionary.                                           *)

\* A line with a word, a count that is a number, and possibly a tag.
WellFormed(line) ==
    LET parts == SplitN(line, " ", 3) IN
    Len(parts) >= 2 /\ Len(parts[1]) > 0 /\ Atoi(parts[2]).ok

\* A line whose count field is missing (no space) or is not a number.
BadCount(line) ==
    LET parts == SplitN(line, " ", 3) IN
    Len(parts) < 2 \/ ~Atoi(parts[2]).ok

\* The first line that is not well formed has a bad count field.
FailsOnBadCount(lines) ==
    \E k \in 1..Len(lines) :
        /\ BadCount(lines[k])
        /\ \A j \in 1..(k - 1) : WellFormed(lines[j])

\* C10: buildPrefixDictionary reports an error value to its caller (it does
\* not crash) for every dictionary line whose count field is missing or is
\* not a number.
C10_BadCountIsReported ==
    (call.op = "buildPrefixDictionary" /\ FailsOnBadCount(call.text))
        => call.out = "error"

\* C11: when buildPrefixDictionary fails on a malformed line, the term table
\* and the corpus size are the same as before the call: nothing of the lines
\* preceding the bad line is installed.
C11_FailedBuildLeavesDictionary ==
    (call.op = "buildPrefixDictionary" /\ call.out = "error")
        => (termFreq = call.aux.termFreq /\ size = call.aux.size)

\* The non-empty strict prefixes of a term.
StrictPrefixes(term) == {SubSeq(term, 1, k) : k \in 1..(Len(term) - 1)}

\* C12: in every reachable state of the dictionary every non-empty strict
\* prefix of every key with frequency > 0 is itself a key of the term table.
C12_PrefixesAreKeys ==
    \A term \in DOMAIN termFreq :
        termFreq[term] > 0 => StrictPrefixes(term) \subseteq DOMAIN termFreq

RECURSIVE SumOver(_, _)
\* The sum of the frequencies m stores under the keys ks.
SumOver(m, ks) ==
    IF ks = {} THEN 0
    ELSE LET k == CHOOSE x \in ks : TRUE IN m[k] + SumOver(m, ks \ {k})

\* C13: in every reachable state of the dictionary the corpus size equals
\* the sum of the frequencies stored in the term table: construction and
\* every successful build establish it, also when the lines repeat a term,
\* and every insertion keeps it, also when the term is already present.
C13_SizeIsSumOfFrequencies ==
    /\ call.op = "NewTokenizer" => size = SumOver(termFreq, DOMAIN termFreq)
    /\ (call.op = "buildPrefixDictionary" /\ call.out = "ok")
           => size = SumOver(termFreq, DOMAIN termFreq)
    /\ (call.op = "addTerm"
          /\ call.aux.size = SumOver(call.aux.termFreq, DOMAIN call.aux.termFreq))
           => size = SumOver(termFreq, DOMAIN termFreq)

\* The word and the count of a well-formed line.
WordOf(line) == SplitN(line, " ", 3)[1]
CountOf(line) == Atoi(SplitN(line, " ", 3)[2]).val

\* The lines name pairwise distinct terms.
DistinctTerms(lines) ==
    \A i, j \in 1..Len(lines) : i # j => WordOf(lines[i]) # WordOf(lines[j])

\* C14: after a successful buildPrefixDictionary(lines) with pairwise
\* distinct terms the key set is exactly the set of non-empty prefixes of the
\* listed terms, each listed term maps to its count and every other key to
\* 0, whatever the order of the lines.
C14_BuildResult ==
    (call.op = "buildPrefixDictionary" /\ call.out = "ok" /\ DistinctTerms(call.text)) =>
        LET listed == {WordOf(call.text[k]) : k \in 1..Len(call.text)} IN
        /\ DOMAIN termFreq = listed \cup UNION {StrictPrefixes(w) : w \in listed}
        /\ \A k \in 1..Len(call.text) :
               termFreq[WordOf(call.text[k])] = CountOf(call.text[k])
        /\ \A key \in DOMAIN termFreq : key \notin listed => termFreq[key] = 0

\* A term is listed before a longer term that extends it, and the build
\* succeeded.
C14_ShortTermFirst ==
    /\ call.op = "buildPrefixDictionary" /\ call.out = "ok"
    /\ call.text = <<Line(<<"han1">>, <<"2">>), Line(<<"han1", "han2">>, <<"1">>)>>
    /\ termFreq[<<"han1">>] = 2

\* C20: building the dictionary from a list of well-formed lines followed by
\* the same list again gives the same term table as building it from the
\* list once, also when the list names a term twice with different counts.
C20_BuildTwiceSameTable ==
    (call.op \in {"buildPrefixDictionary twice", "NewTokenizer twice"} /\ call.out = "ok")
        => termFreq = call.aux.termFreq

\* The list named a term twice with different counts and was built twice.
C20_RepeatedTermBuiltTwice ==
    /\ call.op = "buildPrefixDictionary twice" /\ call.out = "ok"
    /\ call.text = <<Line(<<"han1", "han2">>, <<"1">>),
                     Line(<<"han1", "han2">>, <<"6", " ", "a">>)>>
    /\ termFreq[<<"han1", "han2">>] = 6

-----------------------------------------------------------------------------
(* Properties of the locking.                                              *)

\* The call goroutine g was started with.
Calling(g, fn) == frames[g].st = "run" /\ frames[g].stack[1].fn = fn

\* No goroutine other than g holds the dictionary lock.
NoOtherHolds(g) == lockW \in {0, g} /\ lockR \subseteq {g}

\* C3: every call AddWord(word, freq) made while no other goroutine holds
\* the dictionary lock eventually returns (it does not block forever on the
\* reader/writer lock), and a Cut call eventually returns as well.
C3_AddWordAndCutReturn ==
    \A g \in Goroutines :
        /\ (Calling(g, "AddWord") /\ NoOtherHolds(g)) ~> (frames[g].st = "done")
        /\ Calling(g, "Cut") ~> (frames[g].st = "done")

\* C4: after AddWord(word, freq) with freq >= 1 a lookup of word finds it
\* with frequency exactly freq and the corpus size has grown by exactly
\* freq: the call returns with both done.
C4_AddWordInserts ==
    \A g \in Goroutines : \A word \in TermSamples : \A freq \in FreqSamples :
        (Calling(g, "AddWord") /\ frames[g].stack[1].arg = word
                               /\ frames[g].stack[1].freq = freq
                               /\ frames[g].stack[1].pc = "lock")
          ~> (/\ frames[g].st = "done"
              /\ ret[g] = [found |-> TRUE, freq |-> freq, grew |-> freq])

\* g holds the dictionary lock, in shared or exclusive mode.
HoldsLock(g) == g \in lockR \/ lockW = g

\* The next step of g reads pd.size or pd.termFreq: suggestFreq on entry,
\* suggestFreq after Cut returned, the body of Cut.
ReadsNext(g) ==
    /\ HasTop(g)
    /\ \/ Top(g).fn = "AddWord" /\ Top(g).pc = "suggest"
       \/ Top(g).fn = "suggestFreq" /\ Top(g).pc = "freq"
       \/ Top(g).fn = "Cut" /\ Top(g).pc = "runlock"

\* The next step of g writes pd.termFreq and pd.size.
WritesNext(g) == HasTop(g) /\ Top(g).fn = "addTerm" /\ Top(g).pc = "write"

\* C25: every read of the term table or of the corpus size made by Cut or
\* AddWord, the frequency estimation of AddWord included, happens while the
\* reader holds the dictionary lock, and every write while the writer holds
\* it exclusively.
C25_AccessesHoldLock ==
    \A g \in Goroutines :
        /\ ReadsNext(g) => HoldsLock(g)
        /\ WritesNext(g) => lockW = g

-----------------------------------------------------------------------------
(* Properties of CutParallel.                                              *)

\* C1: for every text, hmm flag and worker count >= 1, CutParallel with
\* ordered = true returns exactly the token list Cut returned for the same
\* text and flag, whatever the interleaving.
C1_OrderedParallelEqualsCut ==
    (par.pc = "done" /\ par.ordered) => par.tokens = call.out

\* CutParallel with ordered = true returns one of the token lists Cut can
\* return for the text.
OrderedParallelIsACut ==
    (par.pc = "done" /\ par.ordered) => par.tokens \in Cut(par.text, par.useHmm)

\* The token lists that concatenate one result of cutBlock per block, the
\* blocks taken in the order perm from position i on.
RECURSIVE BlockConcats(_, _, _, _)
BlockConcats(blocks, perm, i, useHmm) ==
    IF i > Len(blocks) THEN {<<>>}
    ELSE { first \o rest : first \in cutBlock(blocks[perm[i]], useHmm),
                           rest \in BlockConcats(blocks, perm, i + 1, useHmm) }

\* The orders k blocks can be taken in.
BlockOrders(k) == { f \in [1..k -> 1..k] : \A i, j \in 1..k : i # j => f[i] # f[j] }

\* C15: CutParallel with ordered = false returns, whatever the interleaving,
\* the token lists of the blocks one after the other in some order of the
\* blocks: the tokens of one block are contiguous and in the order cutBlock
\* produced them.
C15_UnorderedIsBlockwise ==
    (par.pc = "done" /\ ~par.ordered) =>
        \E perm \in BlockOrders(Len(zhBlocks(par.text))) :
            par.tokens \in BlockConcats(zhBlocks(par.text), perm, 1, par.useHmm)

\* An unordered run in which the second block, of two tokens, arrived first.
C15_SecondBlockFirst ==
    /\ par.pc = "done" /\ ~par.ordered
    /\ par.text = <<"han1", "a", "+">>
    /\ par.tokens = << <<"a">>, <<"+">>, <<"han1">> >>

\* The degenerate texts: empty, one character, only whitespace, only
\* punctuation.
Degenerate(text) ==
    \/ Len(text) <= 1
    \/ \A i \in 1..Len(text) : text[i] \in Space
    \/ \A i \in 1..Len(text) : text[i] \in Other

ReceivedIds == {par.rblocks[k].id : k \in 1..Len(par.rblocks)}

\* C22: in CutParallel with one worker or more, the collector receives for
\* every block of splitText exactly one result block with its id: no worker
\* leaves through the stop case, no id is received twice, and when the
\* collector's loop has ended every id has been received.
C22_EveryBlockOnce ==
    /\ Running => \A w \in Workers : par.workers[w].pc # "returned"
    /\ Running => \A j, k \in 1..Len(par.rblocks) :
                     j # k => par.rblocks[j].id # par.rblocks[k].id
    /\ par.pc = "done" =>
         /\ Len(par.rblocks) = Len(zhBlocks(par.text))
         /\ ReceivedIds = {zhBlocks(par.text)[k].id : k \in 1..Len(zhBlocks(par.text))}

\* Two workers, three blocks, the second block received first.
C22_ThreeBlocksTwoWorkers ==
    /\ par.pc = "done"
    /\ par.numWorkers = 2
    /\ Len(par.rblocks) = 3
    /\ par.rblocks[1].id = 1

\* C23: CutParallel with one worker or more always eventually returns, for
\* every text, the empty text with its channels of capacity 0 included.
C23_CutParallelReturns == (par.pc = "collect") ~> (par.pc = "done")

\* CutParallel has returned from the empty text, whose one block went
\* through two channels without buffer.
C23_EmptyTextReturned ==
    /\ par.pc = "done"
    /\ par.text = <<>>
    /\ par.blocks.cap = 0 /\ par.result.cap = 0
    /\ Len(par.rblocks) = 1

\* Worker w is inside cutBlock on a Chinese block: buildDAG assigns tk.dag
\* and findDAGPath assigns tk.dagProba before it returns.
WritesDag(w) == par.workers[w].pc = "cut" /\ par.workers[w].b.doProcess

\* C24: during CutParallel no field of the Tokenizer is written by one
\* worker while another worker may read or write it.
C24_WorkersShareNoField ==
    Running => \A v, w \in Workers : (v # w /\ WritesDag(v)) => ~WritesDag(w)

====
